---- MODULE Spec2Model ----
(***************************************************************************)
(* A model of fetchy's download engine (src/downloader.py): the range      *)
(* partitioner, the chunk fetchers, the orchestrating download() call,     *)
(* the merger and the pause/resume/cancel/progress operations; and of its  *)
(* resolver (src/connection_manager.py): the probe, the fallback GET and   *)
(* the extraction of the file name from the header or the URL; of the     *)
(* download worker of the GUI (src/gui.py) and of the queue processing of  *)
(* the command line (src/cli.py).                                          *)
(*                                                                         *)
(* Bytes of the remote resource are modelled by their offsets: the         *)
(* resource of length R is the sequence <<0, 1, ..., R-1>>, so that the    *)
(* content of a part or of the merged output says which bytes it holds     *)
(* and in which order.  A file is a record [exists, data].                 *)
(***************************************************************************)
EXTENDS Integers, Sequences, FiniteSets, TLC

\* ---------------------------------------------------------------- bounds
\* Largest requested thread count (num_threads argument of download()).
MaxThreads == 2
\* Largest resource size (Content-Length) the resolver reports.
MaxSize == 3
\* Largest length of one streamed increment (stands for chunk_size=8192).
MaxInc == 2
\* Input bounds of the partitioner checked on its own (SpecSplit).
SplitMaxSize == 12
SplitMaxChunks == 6

\* Largest number of items in the queue of the command line.
MaxQueue == 2

Threads == 0 .. (MaxThreads - 1)

VARIABLES
    pc,               \* position of the coordinating thread inside download()
    result,           \* what download() gave its caller
    requested,        \* the num_threads argument as passed by the caller
    num_threads,      \* the local num_threads (lines 168, 196 reassign it)
    total_size,       \* int(content["size"])
    content,          \* what Connector.connect() returned to _initializer
    real_size,        \* length of the body the server actually holds
    output_dir,       \* the local output_dir: "unbound" before line 175, then "bound"
    success,          \* value returned by _parallel_downloader
    is_paused,        \* Downloader.is_paused
    is_cancelled,     \* Downloader.is_cancelled
    downloaded_bytes, \* Downloader.downloaded_bytes (list, index i at i+1)
    ranges,           \* the ranges computed by _splitter
    fpc,              \* position of fetcher thread i in _threaded_download
    hdr,              \* Range header fetcher i sent: <<start, end>>, <<>> = none
    resp,             \* fetcher i's request: "none", "206", "200" or "failed"
    body,             \* bytes of fetcher i's response not yet read
    cur,              \* the increment fetcher i holds (loop variable chunk)
    parts,            \* part_i.tmp in the output directory
    out,              \* the file at output_path
    cancelEarly,      \* history: cancel() was called before all fetchers returned
    mergeFault,       \* history: the merge hit an I/O error
    progress,         \* last value returned by get_progress()
    conn,             \* the Connector object and its last connect() call
    peer,             \* a second Downloader session working in the same directory
    gui,              \* the DownloadWorker of the GUI (src/gui.py)
    cli               \* CLIDownloader.process_queue and its queue (src/cli.py)

vars == << pc, result, requested, num_threads, total_size, content,
           real_size, output_dir, success, is_paused, is_cancelled,
           downloaded_bytes, ranges, fpc, hdr, resp, body, cur, parts, out,
           cancelEarly, mergeFault, progress, conn,
           peer, gui, cli >>

\* ------------------------------------------------------------ helpers
Min(a, b) == IF a <= b THEN a ELSE b

\* The "size" of metadata without a Content-Length (Python's None).
NoSize == -1
\* connect() results: None, or the dict of lines 138-145 (the keys download() reads).
NoContent == [ok |-> FALSE, size |-> NoSize, supports_resume |-> FALSE]
Content(sz, sr) == [ok |-> TRUE, size |-> sz, supports_resume |-> sr]

NoFile == [exists |-> FALSE, data |-> << >>]
File(d) == [exists |-> TRUE, data |-> d]

\* The bytes a .. b of the resource (empty when a > b).
Bytes(a, b) == IF a > b THEN << >> ELSE [k \in 1 .. (b - a + 1) |-> a + k - 1]

RECURSIVE SumSeq(_)
SumSeq(s) == IF s = << >> THEN 0 ELSE Head(s) + SumSeq(Tail(s))

\* math.ceil(total_size / num_chunks) for total_size >= 0, num_chunks >= 1
\* (the float quotient is exact for the sizes of the model).
\* (CeilDivFloor: the quotient rounded down instead of up.)
CeilDivFloor(a, b) == a \div b
CeilDiv(a, b) == IF a % b = 0 THEN a \div b ELSE (a \div b) + 1

\* Downloader._splitter: the list of (start, end), chunk i at index i+1.
\* (SplitterNoClamp: the end of a range not limited to total_size - 1.)
SplitterNoClamp(ts, nc) ==
    LET chunk_size == CeilDiv(ts, nc)
    IN  [k \in 1 .. nc |->
            << (k - 1) * chunk_size, (k - 1) * chunk_size + chunk_size - 1 >>]
Splitter(ts, nc) ==
    LET chunk_size == CeilDiv(ts, nc)
    IN  [k \in 1 .. nc |->
            << (k - 1) * chunk_size,
               Min((k - 1) * chunk_size + chunk_size - 1, ts - 1) >>]

\* Downloader._merger: appends the parts 0 .. n-1 that exist, in index order,
\* to a freshly created output file and removes each one after it is copied.
\* failAt = n is a merge without I/O error; failAt = k < n is an exception
\* raised when part k is reached (the output is created, parts < k consumed).
RECURSIVE MergeLoop(_, _, _, _, _)
MergeLoop(i, n, failAt, acc, ps) ==
    IF i = n THEN [ok |-> TRUE, out |-> File(acc), parts |-> ps]
    ELSE IF i = failAt THEN [ok |-> FALSE, out |-> File(acc), parts |-> ps]
    ELSE IF ps[i].exists
         THEN MergeLoop(i + 1, n, failAt, acc \o ps[i].data,
                        [ps EXCEPT ![i] = NoFile])
         ELSE MergeLoop(i + 1, n, failAt, acc, ps)

\* (MergeLoopDown, MergerDescending: the parts taken from the last to the first.)
RECURSIVE MergeLoopDown(_, _, _, _, _)
MergeLoopDown(i, n, failAt, acc, ps) ==
    IF i < 0 THEN [ok |-> TRUE, out |-> File(acc), parts |-> ps]
    ELSE IF i = failAt THEN [ok |-> FALSE, out |-> File(acc), parts |-> ps]
    ELSE IF ps[i].exists
         THEN MergeLoopDown(i - 1, n, failAt, acc \o ps[i].data,
                            [ps EXCEPT ![i] = NoFile])
         ELSE MergeLoopDown(i - 1, n, failAt, acc, ps)

MergerDescending(ps, n, failAt) == MergeLoopDown(n - 1, n, failAt, << >>, ps)
Merger(ps, n, failAt) == MergeLoop(0, n, failAt, << >>, ps)

\* Downloader._cleanup_parts: removes part_i.tmp for i in range(num_threads).
\* (CleanupPartsButLast: the loop stopping one part short.)
CleanupPartsButLast(ps, n) ==
    [i \in Threads |-> IF i < n - 1 THEN NoFile ELSE ps[i]]
CleanupParts(ps, n) == [i \in Threads |-> IF i < n THEN NoFile ELSE ps[i]]

\* A second Downloader object whose output file lies in the same directory:
\* the position of its download(), its thread count, the positions of its
\* fetchers and its output file.
Peer(ppc, n, pf, pout) == << ppc, n, pf, pout >>
PeerPc(p) == p[1]
PeerThreads(p) == p[2]
PeerFpc(p) == p[3]
PeerOut(p) == p[4]
NoPeer == Peer("idle", 0, [i \in Threads |-> "idle"], NoFile)

\* The resource of the second session has PeerSize bytes; they are written
\* as negative numbers, so that they differ from every byte of the resource
\* of the first session.
PeerSize == MaxSize
PeerBytes(a, b) == [k \in 1 .. Len(Bytes(a, b)) |-> 0 - Bytes(a, b)[k] - 1]

\* DownloadWorker of the GUI after __init__ (gui.py lines 39-48), run() not
\* yet started: the position of run(), the two flags, the finished signals
\* emitted so far and the last one, the locals of run(), the positions and
\* pending data of the chunk threads, the counters, the <save_path>.partN
\* files and the file at save_path.
NoWorker ==
    [total_size |-> 0, success |-> FALSE, is_paused |-> FALSE,
     body |-> [i \in Threads |-> << >>],
     parts |-> [i \in Threads |-> NoFile],
     out |-> NoFile,
     rpc |-> "idle", is_running |-> TRUE, emitted |-> 0, message |-> "",
     threads |-> 0,
     cpc |-> [i \in Threads |-> "idle"],
     chunk |-> [i \in Threads |-> << >>],
     downloaded |-> << >>]

\* The command line's process_queue: the statuses of the queue items, the
\* index of the loop of line 197, where the call stands, the statuses the
\* queue had when it was loaded, and what Downloader.download gave for
\* each item ("none": download was not called).
Cli(queue, pos, phase, before, results) ==
    << queue, pos, phase, before, results >>
CliQueue(c) == c[1]
CliPos(c) == c[2]
CliPhase(c) == c[3]
CliBefore(c) == c[4]
CliResults(c) == c[5]
\* process_queue is not called.
NoQueue == Cli(<< >>, 1, "idle", << >>, << >>)
\* Line 187: the queue as loaded.
Loaded(q) == Cli(q, 1, "loop", q, [k \in 1 .. Len(q) |-> "none"])
ItemStatuses == {"pending", "completed", "failed"}

\* The state pause(), resume() and cancel() act on.
Ctl == [is_paused |-> is_paused, is_cancelled |-> is_cancelled,
        downloaded_bytes |-> downloaded_bytes]

\* (PauseToggle: pause() flipping the flag instead of setting it.)
PauseToggle(s) == [s EXCEPT !.is_paused = ~s.is_paused]
PauseOp(s) == [s EXCEPT !.is_paused = TRUE]
\* (ResumeClearsCancel: resume() reviving a cancelled session.)
ResumeClearsCancel(s) == [s EXCEPT !.is_paused = FALSE, !.is_cancelled = FALSE]
ResumeOp(s) == [s EXCEPT !.is_paused = FALSE]
CancelOp(s) == [s EXCEPT !.is_cancelled = TRUE]

\* The effective thread count of line 192-196.
EffectiveThreads(n, ts, sr) == IF ~sr /\ ts > 0 THEN 1 ELSE n

\* The test of line 203 that sends the session to the merge.
\* (ShouldMergeAlways: the test left out.)
ShouldMergeAlways(ok, cancelled) == TRUE
ShouldMerge(ok, cancelled) == ok /\ ~cancelled

\* The update of line 71.
\* (CounterAssign: "=" written for "+=".)
CounterAssign(old, len) == len
\* (CounterAddOne: the increments counted instead of their bytes.)
CounterAddOne(old, len) == old + 1
CounterAdd(old, len) == old + len

Spawned(i) == fpc[i] # "idle"
AllReturned == pc \in {"join", "joined", "merge", "done"}
               /\ (\A i \in Threads : fpc[i] \in {"idle", "done"})
               /\ (\E i \in Threads : Spawned(i))

\* =============================================== the resolver (Connector)
\* Text is a sequence of code points.  Chr lists the printable ASCII
\* characters in code order, Chr[1] being the space (code 32), with the
\* double quote, the backslash and the backtick written by name; Str turns a sequence of
\* such one-character strings into the text it spells.
Chr ==
    << " ", "!", "dquote", "#", "$", "%", "&", "'", "(", ")", "*", "+",
       ",", "-", ".", "/", "0", "1", "2", "3", "4", "5", "6", "7", "8",
       "9", ":", ";", "<", "=", ">", "?", "@", "A", "B", "C", "D", "E",
       "F", "G", "H", "I", "J", "K", "L", "M", "N", "O", "P", "Q", "R",
       "S", "T", "U", "V", "W", "X", "Y", "Z", "[", "backslash", "]",
       "^", "_", "backtick", "a", "b", "c", "d", "e", "f", "g", "h",
       "i", "j", "k", "l", "m", "n", "o", "p", "q", "r", "s", "t", "u",
       "v", "w", "x", "y", "z", "{", "|", "}", "~" >>
CodeOf ==
    [c \in {Chr[k] : k \in 1 .. Len(Chr)} |->
        31 + (CHOOSE k \in 1 .. Len(Chr) : Chr[k] = c)]
Ord(c) == CodeOf[c]
Str(s) == [k \in 1 .. Len(s) |-> Ord(s[k])]

\* Python truthiness of a str-or-None value: None and "" are both falsy, and
\* the resolver tests such values for truthiness only, so None is << >>.
None == << >>
Truthy(s) == s # << >>

\* Characters the patterns and the URL parser look for.
Apostrophe == Ord("'")
DoubleQuote == Ord("dquote")
NewLine == 10
Slash == Ord("/")
Question == Ord("?")
Hash == Ord("#")
Colon == Ord(":")
Semicolon == Ord(";")
Percent == Ord("%")

\* str.lower() on ASCII letters.
Lower(s) ==
    [k \in 1 .. Len(s) |->
        IF s[k] \in Ord("A") .. Ord("Z") THEN s[k] + (Ord("a") - Ord("A"))
        ELSE s[k]]

\* s[p:] starts with lit.
StartsWithAt(s, p, lt) ==
    /\ p + Len(lt) - 1 <= Len(s)
    /\ \A k \in 1 .. Len(lt) : s[p + k - 1] = lt[k]

\* Length of the longest run of characters outside X that starts at p: what
\* a greedy [^...]+ or [^...]* consumes.
RECURSIVE RunNot(_, _, _)
RunNot(s, p, X) ==
    IF p > Len(s) \/ s[p] \in X THEN 0 ELSE 1 + RunNot(s, p + 1, X)

\* str.find of any character of X: its position, Len(s) + 1 when absent.
FindAny(s, X) == 1 + RunNot(s, 1, X)
\* str.rfind of character c: its last position, 0 when absent.
RFind(s, c) ==
    IF \E p \in 1 .. Len(s) : s[p] = c
    THEN CHOOSE p \in 1 .. Len(s) :
            s[p] = c /\ \A q \in (p + 1) .. Len(s) : s[q] # c
    ELSE 0

\* urllib.parse.unquote (line 56, line 76): %XX with two hex digits becomes
\* a byte, any other character stands for itself; runs of bytes are decoded
\* as UTF-8 with errors="replace".  A byte of 128 or more is carried as its
\* negative until it is decoded.  Sequences of one, two and three bytes are
\* decoded; a byte that starts none of them becomes U+FFFD.
IsHex(c) ==
    \/ c \in Ord("0") .. Ord("9")
    \/ c \in Ord("A") .. Ord("F")
    \/ c \in Ord("a") .. Ord("f")
HexVal(c) ==
    IF c \in Ord("0") .. Ord("9") THEN c - Ord("0")
    ELSE IF c \in Ord("A") .. Ord("F") THEN c - Ord("A") + 10
    ELSE c - Ord("a") + 10
PercentByte(h, l) ==
    LET b == 16 * HexVal(h) + HexVal(l) IN IF b < 128 THEN b ELSE 0 - b
RECURSIVE UnquoteToBytes(_)
UnquoteToBytes(s) ==
    IF s = << >> THEN << >>
    ELSE IF s[1] = Percent /\ Len(s) >= 3 /\ IsHex(s[2]) /\ IsHex(s[3])
         THEN << PercentByte(s[2], s[3]) >> \o UnquoteToBytes(SubSeq(s, 4, Len(s)))
         ELSE << s[1] >> \o UnquoteToBytes(Tail(s))
IsCont(u, k) == k <= Len(u) /\ u[k] < 0 /\ (0 - u[k]) \in 128 .. 191
Replacement == 65533
RECURSIVE Utf8Decode(_)
Utf8Decode(u) ==
    IF u = << >> THEN << >>
    ELSE IF u[1] >= 0 THEN << u[1] >> \o Utf8Decode(Tail(u))
    ELSE IF (0 - u[1]) \in 194 .. 223 /\ IsCont(u, 2)
         THEN << ((0 - u[1]) - 192) * 64 + ((0 - u[2]) - 128) >>
              \o Utf8Decode(SubSeq(u, 3, Len(u)))
    ELSE IF (0 - u[1]) \in 224 .. 239 /\ IsCont(u, 2) /\ IsCont(u, 3)
         THEN << ((0 - u[1]) - 224) * 4096 + ((0 - u[2]) - 128) * 64
                 + ((0 - u[3]) - 128) >>
              \o Utf8Decode(SubSeq(u, 4, Len(u)))
    ELSE << Replacement >> \o Utf8Decode(Tail(u))
\* (UnquoteVerbatim: the name returned as it stands in the header or URL.)
UnquoteVerbatim(s) == s
Unquote(s) == Utf8Decode(UnquoteToBytes(s))

LitFilenameStar ==
    Str(<< "f", "i", "l", "e", "n", "a", "m", "e", "*", "=" >>)
LitFilename ==
    Str(<< "f", "i", "l", "e", "n", "a", "m", "e", "=" >>)

\* Lines 50-52: the extended pattern tried at position p: the literal
\* filename*= , one or more characters other than an apostrophe (the
\* charset), an apostrophe, any characters other than an apostrophe (the
\* language), an apostrophe, and one or more characters up to the end of the
\* line (group 3, the value); << >> when the pattern does not match at p.
\* The classes exclude the apostrophe that has to follow them, so the greedy
\* runs are the only way to match.  ExtendedCharset, ExtendedLanguage and
\* ExtendedValue match the rest of the pattern from the position given.
ExtendedValue(s, c) ==
    IF RunNot(s, c, {NewLine}) >= 1
    THEN SubSeq(s, c, c + RunNot(s, c, {NewLine}) - 1)
    ELSE << >>
ExtendedLanguage(s, b) ==
    IF b + RunNot(s, b, {Apostrophe}) <= Len(s)
    THEN ExtendedValue(s, b + RunNot(s, b, {Apostrophe}) + 1)
    ELSE << >>
ExtendedCharset(s, a) ==
    IF /\ RunNot(s, a, {Apostrophe}) >= 1
       /\ a + RunNot(s, a, {Apostrophe}) <= Len(s)
    THEN ExtendedLanguage(s, a + RunNot(s, a, {Apostrophe}) + 1)
    ELSE << >>
ExtendedAt(s, p) ==
    IF StartsWithAt(s, p, LitFilenameStar)
    THEN ExtendedCharset(s, p + Len(LitFilenameStar))
    ELSE << >>

\* Line 59: the plain pattern tried at position p: the literal filename= ,
\* an optional double quote, one or more characters other than a double
\* quote (group 1, the value), an optional double quote.  When the optional
\* quote is there and a quote follows it at once, the pattern matches
\* neither with nor without it.
PlainValue(s, b) ==
    IF RunNot(s, b, {DoubleQuote}) >= 1
    THEN SubSeq(s, b, b + RunNot(s, b, {DoubleQuote}) - 1)
    ELSE << >>
PlainStart(s, a) ==
    IF a <= Len(s) /\ s[a] = DoubleQuote THEN a + 1 ELSE a
PlainAt(s, p) ==
    IF StartsWithAt(s, p, LitFilename)
    THEN PlainValue(s, PlainStart(s, p + Len(LitFilename)))
    ELSE << >>

\* re.search: the pattern is tried at positions p, p + 1, ... and the first
\* match is the result; << >> when no position matches.
RECURSIVE SearchExtended(_, _)
SearchExtended(s, p) ==
    IF p > Len(s) THEN << >>
    ELSE IF ExtendedAt(s, p) # << >> THEN ExtendedAt(s, p)
    ELSE SearchExtended(s, p + 1)
RECURSIVE SearchPlain(_, _)
SearchPlain(s, p) ==
    IF p > Len(s) THEN << >>
    ELSE IF PlainAt(s, p) # << >> THEN PlainAt(s, p)
    ELSE SearchPlain(s, p + 1)

\* Lines 41-66: _parse_content_disposition.
PlainOrNone(plain) == IF plain # << >> THEN plain ELSE None
ExtendedOrPlain(extended, content_disposition) ==
    IF extended # << >> THEN Unquote(extended)
    ELSE PlainOrNone(SearchPlain(content_disposition, 1))
ParseContentDisposition(content_disposition) ==
    IF ~Truthy(content_disposition) THEN None
    ELSE ExtendedOrPlain(SearchExtended(content_disposition, 1),
                         content_disposition)

\* Line 73-74: urlparse(url).path.  The scheme is cut at the first colon when
\* what precedes it is a letter followed by scheme characters; after "//" the
\* host runs to the first of / ? #; the fragment is cut at the first #, the
\* query at the first ?, and for the schemes that have parameters the
\* parameters at the first ; of the last path segment.
IsAlpha(c) == c \in Ord("a") .. Ord("z") \/ c \in Ord("A") .. Ord("Z")
IsSchemeChar(c) ==
    \/ IsAlpha(c)
    \/ c \in Ord("0") .. Ord("9")
    \/ c \in {Ord("+"), Ord("-"), Ord(".")}
UsesParams ==
    { << >>, Str(<<"h", "t", "t", "p">>), Str(<<"h", "t", "t", "p", "s">>),
      Str(<<"f", "t", "p">>), Str(<<"s", "f", "t", "p">>) }
HasScheme(url, colon) ==
    /\ colon > 1
    /\ colon <= Len(url)
    /\ IsAlpha(url[1])
    /\ \A k \in 1 .. (colon - 1) : IsSchemeChar(url[k])
SchemeAt(url, colon) ==
    IF HasScheme(url, colon) THEN Lower(SubSeq(url, 1, colon - 1)) ELSE << >>
AfterSchemeAt(url, colon) ==
    IF HasScheme(url, colon) THEN SubSeq(url, colon + 1, Len(url)) ELSE url
UrlScheme(url) == SchemeAt(url, FindAny(url, {Colon}))
AfterScheme(url) == AfterSchemeAt(url, FindAny(url, {Colon}))
AfterNetloc(u) ==
    IF StartsWithAt(u, 1, << Slash, Slash >>)
    THEN SubSeq(u, 3 + RunNot(u, 3, {Slash, Question, Hash}), Len(u))
    ELSE u
\* s.split(c, 1)[0]: what precedes the first c, all of s when there is none.
Before(s, c) == SubSeq(s, 1, FindAny(s, {c}) - 1)
\* s.split("/")[-1]
LastSegment(s) == SubSeq(s, RFind(s, Slash) + 1, Len(s))
DropParams(path) ==
    SubSeq(path, 1,
           RFind(path, Slash) + FindAny(LastSegment(path), {Semicolon}) - 1)
PathQueryCut(url) ==
    Before(Before(AfterNetloc(AfterScheme(url)), Hash), Question)
UrlPath(url) ==
    IF UrlScheme(url) \in UsesParams
    THEN DropParams(PathQueryCut(url))
    ELSE PathQueryCut(url)

\* Lines 80, 89: the literal default name.
DefaultName ==
    Str(<< "d", "o", "w", "n", "l", "o", "a", "d", "_", "f", "i", "l", "e" >>)

\* Lines 68-89: _url_parser, the value it leaves in self.filename.
\* (UrlParserKeepsQuery: the last segment of the whole URL, the query kept.)
UrlParserKeepsQuery(url) == LastSegment(url)
NameOrDefault(filename) ==
    IF ~Truthy(filename) \/ filename[Len(filename)] = Slash
    THEN DefaultName
    ELSE filename
UrlParser(url) ==
    Before(NameOrDefault(Unquote(LastSegment(UrlPath(url)))), Question)

\* Lines 16-25: _status_check.  A requests.Response is truthy when its status
\* is below 400 (Response.ok); the probe passes when the status is 200.
\* (StatusCheckAnyReply: every reply taken as a success.)
StatusCheckAnyReply(status_code) == TRUE
StatusCheck(status_code) ==
    IF status_code < 400 THEN status_code = 200 ELSE FALSE

\* Line 32: the range unit that turns range support on.
RangeUnitBytes ==
    Str(<< "b", "y", "t", "e", "s" >>)

\* Lines 27-39: _accept_range_checker, the value it leaves in
\* self.Accept_ranges, given the value the object held before.
AcceptRangeChecker(held, accept_range) ==
    IF Truthy(accept_range) /\ Lower(accept_range) = RangeUnitBytes
    THEN TRUE
    ELSE held

\* Exception classes the transport raises, each with the classes it is an
\* instance of; lines 151-159 list the classes connect() handles.
Ancestors(exc) ==
    CASE exc = "Timeout" ->
            {"Timeout", "RequestException", "OSError", "Exception"}
      [] exc = "ConnectionError" ->
            {"ConnectionError", "RequestException", "OSError", "Exception"}
      [] exc = "UnicodeError" ->
            {"UnicodeError", "ValueError", "Exception"}
Exceptions == {"Timeout", "ConnectionError", "UnicodeError"}
\* (HandlerClauses without its last clause: only the transport's own classes.)
HandledRequestsOnly == << "Timeout", "RequestException" >>
HandlerClauses == << "Timeout", "RequestException", "Exception" >>
Caught(exc, clauses) ==
    \E k \in 1 .. Len(clauses) : clauses[k] \in Ancestors(exc)

\* What a connect() call gives its caller: its kind ("none" for None,
\* "dict" for the metadata dict, "raised" for an exception; "pending" before
\* the first call) followed by the dict's size, supports_resume and filename
\* entries.
Ret(kind, sz, sr, fn) == << kind, sz, sr, fn >>
RetKind(r) == r[1]
RetSize(r) == r[2]
RetSupportsResume(r) == r[3]
RetFilename(r) == r[4]
RetWithout(kind) == Ret(kind, NoSize, FALSE, None)
RetDict(sz, sr, fn) == Ret("dict", sz, sr, fn)

\* The transport's answer to the HEAD probe: its kind ("raise" or "reply"),
\* the exception raised, or the status and the Content-Length,
\* Content-Disposition and Accept-Ranges headers of the reply.
Probe(kind, exc, st, len, cd, ar) == << kind, exc, st, len, cd, ar >>
ProbeKind(p) == p[1]
ProbeExc(p) == p[2]
ProbeStatus(p) == p[3]
ProbeLength(p) == p[4]
ProbeDisposition(p) == p[5]
ProbeRanges(p) == p[6]
ProbeRaise(exc) == Probe("raise", exc, 0, NoSize, None, None)
ProbeReply(st, len, cd, ar) == Probe("reply", "", st, len, cd, ar)

\* The transport's answer to the fallback GET: its kind ("none" when the
\* GET is not sent, "raise" or "reply") and the reply's Content-Length.
Get(kind, len) == << kind, len >>
GetKind(g) == g[1]
GetLength(g) == g[2]
GetNotSent == Get("none", NoSize)
GetRaise == Get("raise", NoSize)
GetReply(len) == Get("reply", len)

\* Lines 7-14: Connector(url).  calls, probe and get are history: the number
\* of connect() calls made and the last call's transport answers.
NewConnector(url) ==
    [url            |-> url,
     content_size   |-> NoSize,
     accepts_ranges |-> None,
     decomposition  |-> None,
     Accept_ranges  |-> FALSE,
     filename       |-> None,
     ret            |-> RetWithout("pending"),
     calls          |-> 0,
     probe          |-> ProbeRaise(""),
     get            |-> GetNotSent]

\* Lines 112-121: the name connect() leaves in self.filename: the one parsed
\* from the header, else the one the object already holds, else the URL's.
Filename(c, parsed) ==
    IF Truthy(parsed) THEN parsed
    ELSE IF Truthy(c.filename) THEN c.filename
    ELSE UrlParser(c.url)

\* Lines 128-136: the size after the fallback GET, which is sent when the
\* probe carried no Content-Length; a GET that raises leaves it None.
ContentSize(probe, get) ==
    IF ProbeLength(probe) # NoSize THEN ProbeLength(probe)
    ELSE IF GetKind(get) = "reply" THEN GetLength(get)
    ELSE NoSize
GetSent(probe, get) ==
    IF ProbeLength(probe) = NoSize THEN get ELSE GetNotSent

\* Lines 107-145: the probe passed the status check.
Resolved(c, probe, get, size, ranged, filename) ==
    [c EXCEPT !.calls          = @ + 1,
              !.probe          = probe,
              !.get            = GetSent(probe, get),
              !.content_size   = size,
              !.decomposition  = ProbeDisposition(probe),
              !.accepts_ranges = ProbeRanges(probe),
              !.Accept_ranges  = ranged,
              !.filename       = filename,
              !.ret            = RetDict(size, ranged, filename)]

\* Lines 146-159: the probe failed the status check, or raised.
Unresolved(c, probe, ret) ==
    [c EXCEPT !.calls = @ + 1,
              !.probe = probe,
              !.get   = GetNotSent,
              !.ret   = ret]

\* Lines 91-159: connect() on Connector c with the transport answering the
\* probe with probe and the fallback GET (if it is sent) with get.
Connect(c, probe, get) ==
    IF ProbeKind(probe) = "raise"
    THEN Unresolved(c, probe,
                    IF Caught(ProbeExc(probe), HandlerClauses)
                    THEN RetWithout("none")
                    ELSE RetWithout("raised"))
    ELSE IF ~StatusCheck(ProbeStatus(probe))
    THEN Unresolved(c, probe, RetWithout("none"))
    ELSE Resolved(c, probe, get,
                  ContentSize(probe, get),
                  AcceptRangeChecker(c.Accept_ranges, ProbeRanges(probe)),
                  Filename(c, ParseContentDisposition(ProbeDisposition(probe))))

\* ------------------------------------------- inputs of the resolver model
HdrPlainQuoted ==
    Str(<< "a", "t", "t", "a", "c", "h", "m", "e", "n", "t", ";", " ", "f",
           "i", "l", "e", "n", "a", "m", "e", "=", "dquote", "p", "l", "a",
           "i", "n", ".", "t", "x", "t", "dquote" >>)
HdrExtended ==
    Str(<< "a", "t", "t", "a", "c", "h", "m", "e", "n", "t", ";", " ", "f",
           "i", "l", "e", "n", "a", "m", "e", "*", "=", "U", "T", "F", "-",
           "8", "'", "'", "c", "a", "f", "%", "C", "3", "%", "A", "9", ".",
           "t", "x", "t" >>)
HdrPlainBare ==
    Str(<< "a", "t", "t", "a", "c", "h", "m", "e", "n", "t", ";", " ", "f",
           "i", "l", "e", "n", "a", "m", "e", "=", "n", "o", "t", "e", "s",
           ".", "m", "d" >>)
HdrExtendedThenPlain ==
    Str(<< "a", "t", "t", "a", "c", "h", "m", "e", "n", "t", ";", " ", "f",
           "i", "l", "e", "n", "a", "m", "e", "*", "=", "U", "T", "F", "-",
           "8", "'", "'", "b", ".", "t", "x", "t", ";", " ", "f", "i", "l",
           "e", "n", "a", "m", "e", "=", "dquote", "a", ".", "t", "x", "t",
           "dquote" >>)
HdrPlainThenExtended ==
    Str(<< "a", "t", "t", "a", "c", "h", "m", "e", "n", "t", ";", " ", "f",
           "i", "l", "e", "n", "a", "m", "e", "=", "dquote", "a", ".", "t",
           "x", "t", "dquote", ";", " ", "f", "i", "l", "e", "n", "a", "m",
           "e", "*", "=", "U", "T", "F", "-", "8", "'", "'", "b", ".", "t",
           "x", "t" >>)
HdrPlainBareParams ==
    Str(<< "a", "t", "t", "a", "c", "h", "m", "e", "n", "t", ";", " ", "f",
           "i", "l", "e", "n", "a", "m", "e", "=", "a", ".", "t", "x", "t",
           ";", " ", "s", "i", "z", "e", "=", "3" >>)
HdrInline ==
    Str(<< "i", "n", "l", "i", "n", "e" >>)
UrlFileQuery ==
    Str(<< "h", "t", "t", "p", "s", ":", "/", "/", "h", "o", "s", "t", "/",
           "p", "a", "t", "h", "/", "f", "i", "l", "e", ".", "z", "i", "p",
           "?", "x", "=", "1" >>)
UrlDirectory ==
    Str(<< "h", "t", "t", "p", "s", ":", "/", "/", "h", "o", "s", "t", "/",
           "p", "a", "t", "h", "/" >>)
UrlNoPath ==
    Str(<< "h", "t", "t", "p", "s", ":", "/", "/", "h", "o", "s", "t" >>)
UrlEscaped ==
    Str(<< "h", "t", "t", "p", "s", ":", "/", "/", "h", "o", "s", "t", "/",
           "a", "%", "2", "0", "b", ".", "b", "i", "n" >>)
RangesBytes ==
    Str(<< "b", "y", "t", "e", "s" >>)
RangesCapital ==
    Str(<< "B", "y", "t", "e", "s" >>)
RangesNone ==
    Str(<< "n", "o", "n", "e" >>)
Dispositions == {None, HdrPlainQuoted, HdrExtended, HdrPlainBare, HdrInline}
\* Headers with both forms of the name, and with a parameter after the name.
DispositionsCombined == {HdrExtendedThenPlain, HdrPlainThenExtended,
                         HdrPlainBareParams}
Urls == {UrlFileQuery, UrlDirectory, UrlNoPath, UrlEscaped}
AcceptRangesValues == {None, RangesBytes, RangesCapital, RangesNone}
Statuses == {200, 204, 304, 404, 503}
Lengths == {0, MaxSize}
\* Largest number of connect() calls made on one Connector.
MaxCalls == 2

\* ------------------------------------------------------------ initial state
Init ==
    /\ pc = "idle"
    /\ result = "pending"
    /\ requested = 0
    /\ num_threads = 0
    /\ total_size = 0
    /\ content = NoContent
    /\ real_size = 0
    /\ output_dir = "unbound"
    /\ success = FALSE
    /\ is_paused = FALSE
    /\ is_cancelled = FALSE
    /\ downloaded_bytes = << >>
    /\ ranges = << >>
    /\ fpc = [i \in Threads |-> "idle"]
    /\ hdr = [i \in Threads |-> << >>]
    /\ resp = [i \in Threads |-> "none"]
    /\ body = [i \in Threads |-> << >>]
    /\ cur = [i \in Threads |-> << >>]
    /\ parts = [i \in Threads |-> NoFile]
    /\ out = NoFile
    /\ cancelEarly = FALSE
    /\ mergeFault = FALSE
    /\ progress = 0
    /\ conn = NewConnector(UrlFileQuery)
    /\ peer = NoPeer
    /\ gui = NoWorker
    /\ cli = NoQueue

ctlVars == << is_paused, is_cancelled, cancelEarly >>
fetchVars == << downloaded_bytes, fpc, hdr, resp, body, cur, parts >>
metaVars == << requested, num_threads, total_size, content, real_size, conn,
              peer, gui, cli >>

\* --------------------------------------------------- download(): connecting
\* The except clause of line 223-226 entered while output_dir is still
\* unbound: _cleanup_parts(num_threads, output_dir) raises UnboundLocalError,
\* which leaves download().
\* connect() returned None: _initializer raises ConnectionError (line 26).
ConnectFail ==
    /\ pc = "idle"
    /\ \E n \in 1 .. MaxThreads :
         /\ requested' = n
         /\ num_threads' = n
    /\ pc' = "done"
    /\ result' = "raised"
    /\ UNCHANGED << conn, peer, gui, cli, total_size, content, real_size, output_dir, success,
                    ranges, out, mergeFault, progress >>
    /\ UNCHANGED ctlVars
    /\ UNCHANGED fetchVars

\* connect() returned metadata whose "size" is None (no Content-Length):
\* int(None) raises TypeError at line 162.
ConnectNoSize ==
    /\ pc = "idle"
    /\ \E n \in 1 .. MaxThreads, sr \in BOOLEAN :
         /\ requested' = n
         /\ num_threads' = n
         /\ content' = Content(NoSize, sr)
    /\ pc' = "done"
    /\ result' = "raised"
    /\ UNCHANGED << conn, peer, gui, cli, total_size, real_size, output_dir, success, ranges, out, mergeFault,
                    progress >>
    /\ UNCHANGED ctlVars
    /\ UNCHANGED fetchVars

\* connect() returned metadata with a size: lines 162-168.
ConnectOk ==
    /\ pc = "idle"
    /\ \E n \in 1 .. MaxThreads, sz \in 0 .. MaxSize, sr \in BOOLEAN,
          rs \in 0 .. MaxSize :
         /\ sz > 0 => rs = sz
         /\ requested' = n
         /\ total_size' = sz
         /\ real_size' = rs
         /\ content' = Content(sz, sr)
         /\ num_threads' = IF sz = 0 THEN 1 ELSE n
    /\ pc' = "mkdir"
    /\ UNCHANGED << result, output_dir, success, ranges, out, mergeFault,
                    progress, conn, peer, gui, cli >>
    /\ UNCHANGED ctlVars
    /\ UNCHANGED fetchVars

\* Lines 171-177: output_dir is bound; it is "." (os.makedirs is not
\* called) or a directory that os.makedirs creates or finds.  Every path
\* of the session is relative to it, so its name is not kept.
OutputDirReady ==
    /\ pc = "mkdir"
    /\ output_dir' = "bound"
    /\ pc' = "spawn"
    /\ UNCHANGED << result, success, ranges, out, mergeFault, progress >>
    /\ UNCHANGED metaVars
    /\ UNCHANGED ctlVars
    /\ UNCHANGED fetchVars

\* Lines 175-177, 223-226: output_dir is bound and not ".", and os.makedirs
\* raises: the except clause cleans up and returns False.
MakeDirsFail ==
    /\ pc = "mkdir"
    /\ output_dir' = "bound"
    /\ parts' = CleanupParts(parts, num_threads)
    /\ pc' = "done"
    /\ result' = "False"
    /\ UNCHANGED << success, ranges, out, mergeFault, progress >>
    /\ UNCHANGED metaVars
    /\ UNCHANGED ctlVars
    /\ UNCHANGED << downloaded_bytes, fpc, hdr, resp, body, cur >>

\* Lines 192-196 and _parallel_downloader up to the last t.start().
Spawn ==
    /\ pc = "spawn"
    /\ LET n == EffectiveThreads(num_threads, total_size,
                                 content.supports_resume)
       IN  /\ num_threads' = n
           /\ ranges' = Splitter(total_size, n)
           /\ downloaded_bytes' = [k \in 1 .. n |-> 0]
           /\ fpc' = [i \in Threads |-> IF i < n THEN "start" ELSE "idle"]
    /\ pc' = "join"
    /\ UNCHANGED << conn, peer, gui, cli, result, requested, total_size, content, real_size,
                    output_dir, success, out, mergeFault, progress >>
    /\ UNCHANGED ctlVars
    /\ UNCHANGED << hdr, resp, body, cur, parts >>

\* ------------------------------------------------- _threaded_download(i)
Range(i) == ranges[i + 1]
FetcherStep(i) ==
    /\ pc = "join"
    /\ UNCHANGED << pc, result, output_dir, success, ranges, out, mergeFault,
                    progress >>
    /\ UNCHANGED metaVars
    /\ UNCHANGED ctlVars

\* Line 47: the part a call writes is part_<part_num>.tmp; parts are named
\* by their number.
\* (PartPathShared: the number left out of the name, one path for all.)
PartPathShared(part_num) == 0
PartPath(part_num) == part_num

\* Line 63: the condition that keeps a fetcher in its pause loop.
\* (PauseLoopIgnoresCancel: the loop testing is_paused alone.)
PauseLoopIgnoresCancel(paused, cancelled) == paused
PauseLoop(paused, cancelled) == paused /\ ~cancelled

\* Line 46: the Range header is built from (start, end) for every call.
RangeHeader(start, end) == << start, end >>

\* Lines 52-55, the server honours the range (206): the part is created
\* empty and the body is the bytes of the range the resource holds.
RequestRanged(i) ==
    /\ fpc[i] = "start"
    /\ FetcherStep(i)
    /\ hdr' = [hdr EXCEPT ![i] = RangeHeader(Range(i)[1], Range(i)[2])]
    /\ resp' = [resp EXCEPT ![i] = "206"]
    /\ body' = [body EXCEPT ![i] =
                   Bytes(Range(i)[1], Min(Range(i)[2], real_size - 1))]
    /\ parts' = [parts EXCEPT ![PartPath(i)] = File(<< >>)]
    /\ fpc' = [fpc EXCEPT ![i] = "iter"]
    /\ UNCHANGED << downloaded_bytes, cur >>

\* Lines 52-55, the server ignores the range and sends the whole body (200).
RequestFull(i) ==
    /\ fpc[i] = "start"
    /\ FetcherStep(i)
    /\ hdr' = [hdr EXCEPT ![i] = RangeHeader(Range(i)[1], Range(i)[2])]
    /\ resp' = [resp EXCEPT ![i] = "200"]
    /\ body' = [body EXCEPT ![i] = Bytes(0, real_size - 1)]
    /\ parts' = [parts EXCEPT ![PartPath(i)] = File(<< >>)]
    /\ fpc' = [fpc EXCEPT ![i] = "iter"]
    /\ UNCHANGED << downloaded_bytes, cur >>

\* The flags and counters of the session take the values of s.
SetCtl(s) ==
    /\ is_paused' = s.is_paused
    /\ is_cancelled' = s.is_cancelled
    /\ downloaded_bytes' = s.downloaded_bytes

\* Lines 74-82: what a failed chunk does to the flags and counters of the
\* session: the branch of line 74 and the three handlers only print.
\* (ChunkFailureCancels: a failed chunk cancelling the whole session.)
ChunkFailureCancels(s) == [s EXCEPT !.is_cancelled = TRUE]
ChunkFailure(s) == s

\* A step of fetcher i that ends in a failed chunk.
FetcherFails(i) ==
    /\ pc = "join"
    /\ SetCtl(ChunkFailure(Ctl))
    /\ resp' = [resp EXCEPT ![i] = "failed"]
    /\ fpc' = [fpc EXCEPT ![i] = "done"]
    /\ UNCHANGED << pc, result, output_dir, success, ranges, out, mergeFault,
                    progress, cancelEarly >>
    /\ UNCHANGED metaVars
    /\ UNCHANGED << body, cur, parts >>

\* Lines 74-75: any other status; nothing is written and the thread ends.
RequestBadStatus(i) ==
    /\ fpc[i] = "start"
    /\ FetcherFails(i)
    /\ hdr' = [hdr EXCEPT ![i] = RangeHeader(Range(i)[1], Range(i)[2])]

\* Lines 77-82: requests.get raises (timeout, transport error).
RequestError(i) ==
    /\ fpc[i] = "start"
    /\ FetcherFails(i)
    /\ hdr' = [hdr EXCEPT ![i] = RangeHeader(Range(i)[1], Range(i)[2])]

\* Line 56, iter_content is exhausted: the file is closed, line 73.
IterEnd(i) ==
    /\ fpc[i] = "iter"
    /\ body[i] = << >>
    /\ FetcherStep(i)
    /\ fpc' = [fpc EXCEPT ![i] = "done"]
    /\ UNCHANGED << downloaded_bytes, hdr, resp, body, cur, parts >>

\* Line 56, iter_content raises in mid-stream: caught at lines 77-82.
IterError(i) ==
    /\ fpc[i] = "iter"
    /\ body[i] # << >>
    /\ FetcherFails(i)
    /\ UNCHANGED hdr

\* Lines 56-60, an increment arrives and the check finds is_cancelled set:
\* the thread returns and the increment is dropped.
IterCancelled(i) ==
    /\ fpc[i] = "iter"
    /\ body[i] # << >>
    /\ is_cancelled
    /\ FetcherStep(i)
    /\ fpc' = [fpc EXCEPT ![i] = "done"]
    /\ UNCHANGED << downloaded_bytes, hdr, resp, body, cur, parts >>

\* Lines 56-58, an increment of 1 .. MaxInc bytes arrives and the check
\* finds is_cancelled clear: on to the pause loop.
IterChunk(i) ==
    /\ fpc[i] = "iter"
    /\ body[i] # << >>
    /\ ~is_cancelled
    /\ FetcherStep(i)
    /\ \E k \in 1 .. Min(MaxInc, Len(body[i])) :
         /\ cur' = [cur EXCEPT ![i] = SubSeq(body[i], 1, k)]
         /\ body' = [body EXCEPT ![i] = SubSeq(body[i], k + 1, Len(body[i]))]
    /\ fpc' = [fpc EXCEPT ![i] = "pause"]
    /\ UNCHANGED << downloaded_bytes, hdr, resp, parts >>

\* Line 67, f.write(chunk) through the handle opened at line 55: the chunk
\* goes to the end of the file; when the path was removed in the meantime
\* (by another session: the file is unlinked, the handle stays valid) the
\* path stays absent.  The offsets of two handles on one file are not kept:
\* bytes are placed in the order of the writes.
WriteThrough(f, chunk) == IF f.exists THEN File(f.data \o chunk) ELSE f

\* Lines 63-67: the pause loop is left when is_paused is clear or
\* is_cancelled is set, and the increment is then written to the part.
PauseExitWrite(i) ==
    /\ fpc[i] = "pause"
    /\ ~PauseLoop(is_paused, is_cancelled)
    /\ FetcherStep(i)
    /\ parts' = [parts EXCEPT ![PartPath(i)] =
                    WriteThrough(parts[PartPath(i)], cur[i])]
    /\ fpc' = [fpc EXCEPT ![i] = "incr"]
    /\ UNCHANGED << downloaded_bytes, hdr, resp, body, cur >>

\* Lines 70-71: under the lock, the counter takes the increment's length.
Incr(i) ==
    /\ fpc[i] = "incr"
    /\ FetcherStep(i)
    /\ downloaded_bytes' =
         [downloaded_bytes EXCEPT
            ![i + 1] = CounterAdd(downloaded_bytes[i + 1], Len(cur[i]))]
    /\ cur' = [cur EXCEPT ![i] = << >>]
    /\ fpc' = [fpc EXCEPT ![i] = "iter"]
    /\ UNCHANGED << hdr, resp, body, parts >>

Fetcher(i) ==
    \/ RequestRanged(i)
    \/ RequestFull(i)
    \/ RequestBadStatus(i)
    \/ RequestError(i)
    \/ IterEnd(i)
    \/ IterError(i)
    \/ IterCancelled(i)
    \/ IterChunk(i)
    \/ PauseExitWrite(i)
    \/ Incr(i)

\* ------------------------------------------- download(): join, merge, return
\* Lines 105-106: t.join() has returned for every thread that was started.
\* (ThreadsJoinedNoWait: the joins left out.)
ThreadsJoinedNoWait == TRUE
ThreadsJoined == \A i \in Threads : fpc[i] \in {"idle", "done"}

\* Lines 104-114: every thread is joined, then is_cancelled is read.
Join ==
    /\ pc = "join"
    /\ ThreadsJoined
    /\ success' = ~is_cancelled
    /\ pc' = "joined"
    /\ UNCHANGED << result, output_dir, ranges, out, mergeFault, progress >>
    /\ UNCHANGED metaVars
    /\ UNCHANGED ctlVars
    /\ UNCHANGED fetchVars

\* Line 203, the test succeeds: on to the merge.
DecideMerge ==
    /\ pc = "joined"
    /\ ShouldMerge(success, is_cancelled)
    /\ pc' = "merge"
    /\ UNCHANGED << result, output_dir, success, ranges, out, mergeFault,
                    progress >>
    /\ UNCHANGED metaVars
    /\ UNCHANGED ctlVars
    /\ UNCHANGED fetchVars

\* Lines 218-221: the parts are removed and False is returned.
DecideCleanup ==
    /\ pc = "joined"
    /\ ~ShouldMerge(success, is_cancelled)
    /\ parts' = CleanupParts(parts, num_threads)
    /\ result' = "False"
    /\ pc' = "done"
    /\ UNCHANGED << output_dir, success, ranges, out, mergeFault, progress >>
    /\ UNCHANGED metaVars
    /\ UNCHANGED ctlVars
    /\ UNCHANGED << downloaded_bytes, fpc, hdr, resp, body, cur >>

\* Lines 209-217: the size of the merged file is compared with total_size;
\* a difference is printed as a warning and True is returned either way.
\* (VerifiedStrict: a size mismatch reported as failure.)
VerifiedStrict(expected, actual) ==
    IF expected > 0 /\ actual # expected THEN "False" ELSE "True"
Verified(expected, actual) == "True"

\* Lines 205-217: _merger returns True and download() returns True.
MergeOk ==
    /\ pc = "merge"
    /\ LET m == Merger(parts, num_threads, num_threads)
       IN  /\ out' = m.out
           /\ parts' = m.parts
           /\ result' = Verified(total_size, Len(m.out.data))
    /\ pc' = "done"
    /\ UNCHANGED << output_dir, success, ranges, mergeFault, progress >>
    /\ UNCHANGED metaVars
    /\ UNCHANGED ctlVars
    /\ UNCHANGED << downloaded_bytes, fpc, hdr, resp, body, cur >>

\* Lines 205-207, 137-139: _merger catches an I/O error at part k and
\* returns False; download() falls off the end of the try block: it has no
\* return statement on this path, so the caller gets None.
MergeFail ==
    /\ pc = "merge"
    /\ \E k \in 0 .. (num_threads - 1) :
         LET m == Merger(parts, num_threads, k)
         IN  /\ out' = m.out
             /\ parts' = m.parts
    /\ mergeFault' = TRUE
    /\ result' = "None"
    /\ pc' = "done"
    /\ UNCHANGED << output_dir, success, ranges, progress >>
    /\ UNCHANGED metaVars
    /\ UNCHANGED ctlVars
    /\ UNCHANGED << downloaded_bytes, fpc, hdr, resp, body, cur >>

\* ------------------------------------------- pause, resume, cancel, progress
otherThanCtl == << pc, result, requested, num_threads, total_size, content,
                   real_size, conn, peer, gui, cli, output_dir, success, ranges, fpc, hdr, resp,
                   body, cur, parts, out, mergeFault, progress >>

\* Lines 228-231.
Pause ==
    /\ SetCtl(PauseOp(Ctl))
    /\ UNCHANGED cancelEarly
    /\ UNCHANGED otherThanCtl

\* Lines 233-236.
Resume ==
    /\ SetCtl(ResumeOp(Ctl))
    /\ UNCHANGED cancelEarly
    /\ UNCHANGED otherThanCtl

\* Some fetcher of the session has not returned yet (or is not started yet).
FetchersPending ==
    \/ pc \in {"idle", "mkdir", "spawn"}
    \/ pc = "join" /\ \E i \in Threads : fpc[i] \notin {"idle", "done"}

\* Lines 238-241.
Cancel ==
    /\ SetCtl(CancelOp(Ctl))
    /\ cancelEarly' = (cancelEarly \/ FetchersPending)
    /\ UNCHANGED otherThanCtl

\* Lines 243-246: the sum of the counters, read under the lock.
GetProgress ==
    /\ progress' = SumSeq(downloaded_bytes)
    /\ UNCHANGED << pc, result, output_dir, success, ranges, out, mergeFault >>
    /\ UNCHANGED metaVars
    /\ UNCHANGED ctlVars
    /\ UNCHANGED fetchVars

\* ------------------------------------------------------------ specifications
Next ==
    \/ ConnectFail
    \/ ConnectNoSize
    \/ ConnectOk
    \/ OutputDirReady
    \/ MakeDirsFail
    \/ Spawn
    \/ \E i \in Threads : Fetcher(i)
    \/ Join
    \/ DecideMerge
    \/ DecideCleanup
    \/ MergeOk
    \/ MergeFail
    \/ Pause
    \/ Resume
    \/ Cancel

Spec == Init /\ [][Next]_vars

\* The session together with a caller polling get_progress().
NextProgress == Next \/ GetProgress
SpecProgress == Init /\ [][NextProgress]_vars

\* The session with a caller that calls pause() while the fetchers run and
\* never calls resume(): once set, is_paused stays set.
PauseWhileDownloading ==
    /\ pc = "join"
    /\ Pause
NextPause ==
    \/ ConnectFail
    \/ ConnectNoSize
    \/ ConnectOk
    \/ OutputDirReady
    \/ MakeDirsFail
    \/ Spawn
    \/ \E i \in Threads : Fetcher(i)
    \/ Join
    \/ DecideMerge
    \/ DecideCleanup
    \/ MergeOk
    \/ MergeFail
    \/ PauseWhileDownloading
    \/ Cancel
SpecPause == Init /\ [][NextPause]_vars

\* The session under fair scheduling.  The coordinating thread runs on
\* whenever it can; a fetcher thread that can take a step again and again
\* (its request and its reads return, its pause loop polls every 0.1 s)
\* takes one; and a caller who has paused the session and has not cancelled
\* it calls resume() or cancel().
LiveThreadCounts == {1, 2}
ConnectOkLive ==
    /\ ConnectOk
    /\ requested' \in LiveThreadCounts
Coordinator ==
    \/ ConnectFail
    \/ ConnectNoSize
    \/ ConnectOkLive
    \/ OutputDirReady
    \/ MakeDirsFail
    \/ Spawn
    \/ Join
    \/ DecideMerge
    \/ DecideCleanup
    \/ MergeOk
    \/ MergeFail
ResumeOrCancel ==
    /\ is_paused
    /\ ~is_cancelled
    /\ (Resume \/ Cancel)
NextLive ==
    \/ Coordinator
    \/ \E i \in Threads : Fetcher(i)
    \/ Pause
    \/ Resume
    \/ Cancel
SpecLive ==
    /\ Init
    /\ [][NextLive]_vars
    /\ WF_vars(Coordinator)
    /\ \A i \in Threads : SF_vars(Fetcher(i))
    /\ WF_vars(ResumeOrCancel)

\* The resolver on its own: a Connector built for one of Urls, and up to
\* MaxCalls connect() calls on it, each with its own transport answers.
InitConnect ==
    /\ pc = "connector"
    /\ result = "pending"
    /\ requested = 0
    /\ num_threads = 0
    /\ total_size = 0
    /\ content = NoContent
    /\ real_size = 0
    /\ output_dir = "unbound"
    /\ success = FALSE
    /\ is_paused = FALSE
    /\ is_cancelled = FALSE
    /\ downloaded_bytes = << >>
    /\ ranges = << >>
    /\ fpc = [i \in Threads |-> "idle"]
    /\ hdr = [i \in Threads |-> << >>]
    /\ resp = [i \in Threads |-> "none"]
    /\ body = [i \in Threads |-> << >>]
    /\ cur = [i \in Threads |-> << >>]
    /\ parts = [i \in Threads |-> NoFile]
    /\ out = NoFile
    /\ cancelEarly = FALSE
    /\ mergeFault = FALSE
    /\ progress = 0
    /\ conn \in {NewConnector(url) : url \in Urls}
    /\ peer = NoPeer
    /\ gui = NoWorker
    /\ cli = NoQueue

otherThanConn == << pc, result, requested, num_threads, total_size, content,
                    real_size, output_dir, success, is_paused, is_cancelled,
                    downloaded_bytes, ranges, fpc, hdr, resp, body, cur,
                    parts, out, cancelEarly, mergeFault, progress, peer,
                    gui, cli >>

ConnectCall(probe, get) ==
    /\ pc = "connector"
    /\ conn.calls < MaxCalls
    /\ conn' = Connect(conn, probe, get)
    /\ UNCHANGED otherThanConn

\* requests.head raises (lines 101-103, 151-159).
ProbeRaises ==
    \E exc \in Exceptions : ConnectCall(ProbeRaise(exc), GetNotSent)

\* The probe is answered with a status that fails the check (lines 146-149).
ProbeBadStatus ==
    \E st \in Statuses :
        /\ ~StatusCheck(st)
        /\ ConnectCall(ProbeReply(st, NoSize, None, None), GetNotSent)

\* The probe passes and carries a Content-Length (lines 106-125, 138-145).
ProbeWithLength ==
    \E st \in Statuses, len \in Lengths, cd \in Dispositions,
       ar \in AcceptRangesValues :
        /\ StatusCheck(st)
        /\ ConnectCall(ProbeReply(st, len, cd, ar), GetNotSent)

\* The probe passes without a Content-Length and the fallback GET answers,
\* with or without one (lines 128-134).
ProbeThenGet ==
    \E st \in Statuses, len \in Lengths \cup {NoSize}, cd \in Dispositions,
       ar \in AcceptRangesValues :
        /\ StatusCheck(st)
        /\ ConnectCall(ProbeReply(st, NoSize, cd, ar), GetReply(len))

\* The probe passes without a Content-Length and the fallback GET raises
\* (lines 135-136).
ProbeThenGetRaises ==
    \E st \in Statuses, cd \in Dispositions, ar \in AcceptRangesValues :
        /\ StatusCheck(st)
        /\ ConnectCall(ProbeReply(st, NoSize, cd, ar), GetRaise)

NextConnect ==
    \/ ProbeRaises
    \/ ProbeBadStatus
    \/ ProbeWithLength
    \/ ProbeThenGet
    \/ ProbeThenGetRaises
SpecConnect == InitConnect /\ [][NextConnect]_vars

\* connect() on servers that also send the combined headers: the probe
\* passes with a Content-Length (lines 106-125, 138-145).
ProbeWithNames ==
    \E len \in Lengths, cd \in Dispositions \cup DispositionsCombined,
       ar \in AcceptRangesValues :
        ConnectCall(ProbeReply(200, len, cd, ar), GetNotSent)

NextNames ==
    \/ ProbeRaises
    \/ ProbeBadStatus
    \/ ProbeWithNames
SpecNames == InitConnect /\ [][NextNames]_vars

\* ------------------------------ two sessions in one output directory
otherThanPeer == << pc, result, requested, num_threads, total_size, content,
                    real_size, output_dir, success, is_paused, is_cancelled,
                    downloaded_bytes, ranges, fpc, hdr, resp, body, cur, out,
                    cancelEarly, mergeFault, progress, conn, gui,
                    cli >>

PeerRange(i) == Splitter(PeerSize, PeerThreads(peer))[i + 1]
PeerMoves(i, to) ==
    Peer(PeerPc(peer), PeerThreads(peer), [PeerFpc(peer) EXCEPT ![i] = to],
         PeerOut(peer))

\* download() of the second session up to the last t.start() (lines
\* 161-201, 88-102): the server supports ranges and gave PeerSize.
PeerSpawn ==
    /\ PeerPc(peer) = "idle"
    /\ \E n \in 1 .. MaxThreads :
         peer' = Peer("join", n,
                      [i \in Threads |-> IF i < n THEN "start" ELSE "idle"],
                      NoFile)
    /\ UNCHANGED parts
    /\ UNCHANGED otherThanPeer

\* Lines 47-55 in the second session: the reply is 206 and
\* open(part_path, "wb") creates or truncates part_<i>.tmp.
PeerRequest(i) ==
    /\ PeerPc(peer) = "join"
    /\ PeerFpc(peer)[i] = "start"
    /\ parts' = [parts EXCEPT ![PartPath(i)] = File(<< >>)]
    /\ peer' = PeerMoves(i, "open")
    /\ UNCHANGED otherThanPeer

\* Lines 56-73 in the second session: the body of the range arrives as one
\* increment and is written; the thread returns.
PeerWrite(i) ==
    /\ PeerPc(peer) = "join"
    /\ PeerFpc(peer)[i] = "open"
    /\ parts' = [parts EXCEPT ![PartPath(i)] =
                    WriteThrough(parts[PartPath(i)],
                                 PeerBytes(PeerRange(i)[1], PeerRange(i)[2]))]
    /\ peer' = PeerMoves(i, "done")
    /\ UNCHANGED otherThanPeer

\* Lines 105-114, 203-217 in the second session: the threads are joined,
\* _merger copies and removes part_0.tmp .. part_<n-1>.tmp of the directory.
PeerMerge ==
    /\ PeerPc(peer) = "join"
    /\ \A i \in Threads : PeerFpc(peer)[i] \in {"idle", "done"}
    /\ LET m == Merger(parts, PeerThreads(peer), PeerThreads(peer))
       IN  /\ parts' = m.parts
           /\ peer' = Peer("done", PeerThreads(peer), PeerFpc(peer), m.out)
    /\ UNCHANGED otherThanPeer

PeerStep ==
    \/ PeerSpawn
    \/ \E i \in Threads : PeerRequest(i)
    \/ \E i \in Threads : PeerWrite(i)
    \/ PeerMerge

NextTwo == Next \/ PeerStep
SpecTwo == Init /\ [][NextTwo]_vars

\* ------------------------- a session in a directory with parts left behind
\* What an earlier session can leave at the path of a part (a failed merge
\* returns without cleanup, lines 137-139 and 207): nothing, or a file
\* holding bytes of that session, written as negative numbers.
StaleFiles == {NoFile, File(PeerBytes(0, 0))}

InitStale ==
    /\ pc = "idle"
    /\ result = "pending"
    /\ requested = 0
    /\ num_threads = 0
    /\ total_size = 0
    /\ content = NoContent
    /\ real_size = 0
    /\ output_dir = "unbound"
    /\ success = FALSE
    /\ is_paused = FALSE
    /\ is_cancelled = FALSE
    /\ downloaded_bytes = << >>
    /\ ranges = << >>
    /\ fpc = [i \in Threads |-> "idle"]
    /\ hdr = [i \in Threads |-> << >>]
    /\ resp = [i \in Threads |-> "none"]
    /\ body = [i \in Threads |-> << >>]
    /\ cur = [i \in Threads |-> << >>]
    /\ parts \in [Threads -> StaleFiles]
    /\ out = NoFile
    /\ cancelEarly = FALSE
    /\ mergeFault = FALSE
    /\ progress = 0
    /\ conn = NewConnector(UrlFileQuery)
    /\ peer = NoPeer
    /\ gui = NoWorker
    /\ cli = NoQueue

SpecStale == InitStale /\ [][Next]_vars

\* ------------------------------------------- gui.py: DownloadWorker
otherThanGui == << pc, result, requested, num_threads, total_size, content,
                   real_size, output_dir, success, is_paused, is_cancelled,
                   downloaded_bytes, ranges, fpc, hdr, resp, body, cur, parts,
                   out, cancelEarly, mergeFault, progress, conn, peer, cli >>

\* self.finished.emit(row, ok, msg) followed by the end of run().
Emit(g, msg) ==
    [g EXCEPT !.emitted = @ + 1, !.message = msg, !.rpc = "done"]

\* Lines 116 and 167: the condition of the two pause loops.
GuiPauseLoop(paused, running) == paused /\ running

GuiRange(i) == Splitter(gui.total_size, gui.threads)[i + 1]
GuiAlive(i) == gui.cpc[i] \notin {"idle", "done"}

\* Lines 57-62: connect() returned nothing.
GuiConnectFails ==
    /\ gui.rpc = "idle"
    /\ gui' = Emit(gui, "Failed to connect")
    /\ UNCHANGED otherThanGui

\* Lines 64, 94-95: the size is absent, int(None) raises TypeError, the
\* last handler emits its text.
GuiSizeAbsent ==
    /\ gui.rpc = "idle"
    /\ gui' = Emit(gui, "TypeError")
    /\ UNCHANGED otherThanGui

\* Lines 64-67: the size is 0.
GuiSizeZero ==
    /\ gui.rpc = "idle"
    /\ gui' = Emit(gui, "Invalid file size")
    /\ UNCHANGED otherThanGui

\* Lines 64-78, 97-108: the size is known, the thread count is 1 without
\* range support, the chunk threads are started.
GuiStart ==
    /\ gui.rpc = "idle"
    /\ \E n \in 1 .. MaxThreads, sz \in 1 .. MaxSize, sr \in BOOLEAN :
         LET t == IF ~sr THEN 1 ELSE n
         IN  gui' = [gui EXCEPT
                       !.total_size = sz,
                       !.threads = t,
                       !.downloaded = [k \in 1 .. t |-> 0],
                       !.cpc = [i \in Threads |->
                                   IF i < t THEN "request" ELSE "idle"],
                       !.rpc = "monitor"]
    /\ UNCHANGED otherThanGui

\* Lines 110-112: the test of the monitor loop; it is left when no chunk
\* thread is alive or is_running is clear.
GuiLoopTest ==
    /\ gui.rpc = "monitor"
    /\ gui' = [gui EXCEPT
                 !.rpc = IF (\E i \in Threads : GuiAlive(i)) /\ gui.is_running
                         THEN "mpause" ELSE "join"]
    /\ UNCHANGED otherThanGui

\* Lines 114-134: the monitor waits while paused, then reports progress,
\* sleeps and goes back to the test.
GuiPauseWait ==
    /\ gui.rpc = "mpause"
    /\ ~GuiPauseLoop(gui.is_paused, gui.is_running)
    /\ gui' = [gui EXCEPT !.rpc = "monitor"]
    /\ UNCHANGED otherThanGui

\* Lines 136-139: each thread is joined for at most one second, so a thread
\* that waits for the network (in requests.get or for the next increment)
\* can be alive afterwards; the result is is_running and not is_paused.
GuiJoin ==
    /\ gui.rpc = "join"
    /\ \A i \in Threads : gui.cpc[i] \in {"idle", "done", "request", "iter"}
    /\ gui' = [gui EXCEPT !.success = gui.is_running /\ ~gui.is_paused,
                          !.rpc = "decide"]
    /\ UNCHANGED otherThanGui

\* Lines 182-192: _merge_parts; failAt as in Merger, the error is printed.
GuiMergeParts(ps, n, failAt) == Merger(ps, n, failAt)
\* Lines 194-201: _cleanup_parts.
GuiCleanupParts(ps, n) == [i \in Threads |-> IF i < n THEN NoFile ELSE ps[i]]

\* Lines 80-83: merge and "Completed".
GuiMerge ==
    /\ gui.rpc = "decide"
    /\ gui.success /\ gui.is_running /\ ~gui.is_paused
    /\ \E k \in 0 .. gui.threads :
         LET m == GuiMergeParts(gui.parts, gui.threads, k)
         IN  gui' = Emit([gui EXCEPT !.parts = m.parts, !.out = m.out],
                         "Completed")
    /\ UNCHANGED otherThanGui

\* Lines 84-86: cleanup and "Cancelled".
GuiCancelled ==
    /\ gui.rpc = "decide"
    /\ ~(gui.success /\ gui.is_running /\ ~gui.is_paused)
    /\ ~gui.is_running
    /\ gui' = Emit([gui EXCEPT
                       !.parts = GuiCleanupParts(gui.parts, gui.threads)],
                   "Cancelled")
    /\ UNCHANGED otherThanGui

\* Lines 80-86: neither branch is taken (the worker is running, and it is
\* paused or was paused when line 139 read the flags): run() ends.
GuiNoBranch ==
    /\ gui.rpc = "decide"
    /\ ~(gui.success /\ gui.is_running /\ ~gui.is_paused)
    /\ gui.is_running
    /\ gui' = [gui EXCEPT !.rpc = "done"]
    /\ UNCHANGED otherThanGui

\* Lines 159-162: requests.get returns 206 with the range or 200 with the
\* whole body; open(part_path, "wb") creates or truncates the part.
GuiChunkReply(i) ==
    /\ gui.cpc[i] = "request"
    /\ \E whole \in BOOLEAN :
         gui' = [gui EXCEPT
                   !.body[i] = IF whole THEN Bytes(0, gui.total_size - 1)
                               ELSE Bytes(GuiRange(i)[1], GuiRange(i)[2]),
                   !.parts[i] = File(<< >>),
                   !.cpc[i] = "iter"]
    /\ UNCHANGED otherThanGui

\* Lines 174-180: another status, a timeout or an error: the thread ends.
GuiChunkFails(i) ==
    /\ gui.cpc[i] \in {"request", "iter"}
    /\ gui' = [gui EXCEPT !.cpc[i] = "done"]
    /\ UNCHANGED otherThanGui

\* Lines 163-165: the stream ends, or an increment arrives and is_running
\* is clear: the thread returns; otherwise on to the pause loop.
GuiChunkNext(i) ==
    /\ gui.cpc[i] = "iter"
    /\ \/ /\ gui.body[i] = << >> \/ ~gui.is_running
          /\ gui' = [gui EXCEPT !.cpc[i] = "done"]
       \/ /\ gui.body[i] # << >>
          /\ gui.is_running
          /\ \E k \in 1 .. Min(MaxInc, Len(gui.body[i])) :
               gui' = [gui EXCEPT
                         !.chunk[i] = SubSeq(gui.body[i], 1, k),
                         !.body[i] = SubSeq(gui.body[i], k + 1,
                                            Len(gui.body[i])),
                         !.cpc[i] = "pause"]
    /\ UNCHANGED otherThanGui

\* Lines 167-173: the pause loop is left, the increment is written and
\* counted.
GuiChunkWrite(i) ==
    /\ gui.cpc[i] = "pause"
    /\ ~GuiPauseLoop(gui.is_paused, gui.is_running)
    /\ gui' = [gui EXCEPT
                 !.parts[i] = WriteThrough(gui.parts[i], gui.chunk[i]),
                 !.downloaded[i + 1] = @ + Len(gui.chunk[i]),
                 !.chunk[i] = << >>,
                 !.cpc[i] = "iter"]
    /\ UNCHANGED otherThanGui

GuiChunk(i) ==
    \/ GuiChunkReply(i)
    \/ GuiChunkFails(i)
    \/ GuiChunkNext(i)
    \/ GuiChunkWrite(i)

\* Lines 203-210: pause(), resume() and stop() of a started worker.
GuiPause ==
    /\ gui.rpc # "idle"
    /\ gui' = [gui EXCEPT !.is_paused = TRUE]
    /\ UNCHANGED otherThanGui
GuiResume ==
    /\ gui.rpc # "idle"
    /\ gui' = [gui EXCEPT !.is_paused = FALSE]
    /\ UNCHANGED otherThanGui
GuiStop ==
    /\ gui.rpc # "idle"
    /\ gui' = [gui EXCEPT !.is_running = FALSE]
    /\ UNCHANGED otherThanGui

NextGui ==
    \/ GuiConnectFails
    \/ GuiSizeAbsent
    \/ GuiSizeZero
    \/ GuiStart
    \/ GuiLoopTest
    \/ GuiPauseWait
    \/ GuiJoin
    \/ GuiMerge
    \/ GuiCancelled
    \/ GuiNoBranch
    \/ \E i \in Threads : GuiChunk(i)
    \/ GuiPause
    \/ GuiResume
    \/ GuiStop
SpecGui == Init /\ [][NextGui]_vars

\* ------------------------------------------- cli.py: process_queue
\* cli.py line 137: what download_file returns once the download thread
\* has been joined; the value Downloader.download gave is not looked at.
\* (DownloadFileChecked: download_file returning the result of download().)
DownloadFileChecked(session_result) == session_result = "True"
DownloadFile(session_result) == TRUE

\* cli.py line 203.
ItemStatus(ok) == IF ok THEN "completed" ELSE "failed"

\* The item at the loop index gets status st, download() having given res;
\* the loop goes to the next item (lines 203-204).
CliNext(st, res) ==
    Cli([CliQueue(cli) EXCEPT ![CliPos(cli)] = st], CliPos(cli) + 1, "loop",
        CliBefore(cli), [CliResults(cli) EXCEPT ![CliPos(cli)] = res])

CliAtPending ==
    /\ CliPhase(cli) = "loop"
    /\ CliPos(cli) <= Len(CliQueue(cli))
    /\ CliQueue(cli)[CliPos(cli)] = "pending"

sessionVars == << pc, result, requested, num_threads, total_size, content,
                 real_size, output_dir, success, is_paused, is_cancelled,
                 downloaded_bytes, ranges, fpc, hdr, resp, body, cur, parts,
                 out, cancelEarly, mergeFault, progress, conn, peer, gui >>

\* Lines 198-199: an item that is not pending is passed over.
CliSkip ==
    /\ CliPhase(cli) = "loop"
    /\ CliPos(cli) <= Len(CliQueue(cli))
    /\ CliQueue(cli)[CliPos(cli)] # "pending"
    /\ cli' = Cli(CliQueue(cli), CliPos(cli) + 1, "loop", CliBefore(cli),
                  CliResults(cli))
    /\ UNCHANGED sessionVars

\* Lines 80-84, 203: download_file's own connect() returns nothing, it
\* returns False.
CliConnectFails ==
    /\ CliAtPending
    /\ cli' = CliNext(ItemStatus(FALSE), "none")
    /\ UNCHANGED sessionVars

\* Lines 101-123: download_file makes a new Downloader and starts
\* download() in a thread; the files of the directory stay as they are.
CliStartDownload ==
    /\ CliAtPending
    /\ cli' = Cli(CliQueue(cli), CliPos(cli), "thread", CliBefore(cli),
                  CliResults(cli))
    /\ pc' = "idle"
    /\ result' = "pending"
    /\ requested' = 0
    /\ num_threads' = 0
    /\ total_size' = 0
    /\ content' = NoContent
    /\ real_size' = 0
    /\ output_dir' = "unbound"
    /\ success' = FALSE
    /\ downloaded_bytes' = << >>
    /\ ranges' = << >>
    /\ fpc' = [i \in Threads |-> "idle"]
    /\ hdr' = [i \in Threads |-> << >>]
    /\ resp' = [i \in Threads |-> "none"]
    /\ body' = [i \in Threads |-> << >>]
    /\ cur' = [i \in Threads |-> << >>]
    /\ out' = NoFile
    /\ mergeFault' = FALSE
    /\ UNCHANGED << is_paused, is_cancelled, cancelEarly, parts, progress,
                    conn, peer, gui >>

\* The steps of download() in its thread; the command line calls neither
\* pause() nor cancel().
CliFetcher(i) ==
    \/ RequestRanged(i)
    \/ RequestFull(i)
    \/ RequestBadStatus(i)
    \/ RequestError(i)
    \/ IterEnd(i)
    \/ IterError(i)
    \/ IterChunk(i)
    \/ PauseExitWrite(i)
    \/ Incr(i)
CliDownloadThread ==
    /\ CliPhase(cli) = "thread"
    /\ \/ ConnectFail
       \/ ConnectNoSize
       \/ ConnectOk
       \/ OutputDirReady
       \/ MakeDirsFail
       \/ Spawn
       \/ \E i \in Threads : CliFetcher(i)
       \/ Join
       \/ DecideMerge
       \/ MergeOk
       \/ MergeFail

\* Lines 126-137, 203-204: the thread has ended (download() returned or an
\* exception ended the thread); download_file returns and the status is
\* saved.
CliJoined ==
    /\ CliPhase(cli) = "thread"
    /\ pc = "done"
    /\ cli' = CliNext(ItemStatus(DownloadFile(result)), result)
    /\ UNCHANGED sessionVars

\* Line 206: the loop is over.
CliEnd ==
    /\ CliPhase(cli) = "loop"
    /\ CliPos(cli) > Len(CliQueue(cli))
    /\ cli' = Cli(CliQueue(cli), CliPos(cli), "end", CliBefore(cli),
                  CliResults(cli))
    /\ UNCHANGED sessionVars

InitQueue ==
    /\ pc = "idle"
    /\ result = "pending"
    /\ requested = 0
    /\ num_threads = 0
    /\ total_size = 0
    /\ content = NoContent
    /\ real_size = 0
    /\ output_dir = "unbound"
    /\ success = FALSE
    /\ is_paused = FALSE
    /\ is_cancelled = FALSE
    /\ downloaded_bytes = << >>
    /\ ranges = << >>
    /\ fpc = [i \in Threads |-> "idle"]
    /\ hdr = [i \in Threads |-> << >>]
    /\ resp = [i \in Threads |-> "none"]
    /\ body = [i \in Threads |-> << >>]
    /\ cur = [i \in Threads |-> << >>]
    /\ parts = [i \in Threads |-> NoFile]
    /\ out = NoFile
    /\ cancelEarly = FALSE
    /\ mergeFault = FALSE
    /\ progress = 0
    /\ conn = NewConnector(UrlFileQuery)
    /\ peer = NoPeer
    /\ gui = NoWorker
    /\ \E len \in 1 .. MaxQueue :
         cli \in {Loaded(q) : q \in [1 .. len -> ItemStatuses]}

NextQueue ==
    \/ CliSkip
    \/ CliConnectFails
    \/ CliStartDownload
    \/ CliDownloadThread
    \/ CliJoined
    \/ CliEnd
SpecQueue == InitQueue /\ [][NextQueue]_vars

\* The partitioner on its own: _splitter(total_size, num_threads) for
\* total_size in 0 .. SplitMaxSize and num_threads in 1 .. SplitMaxChunks.
InitSplit ==
    /\ pc = "split"
    /\ result = "pending"
    /\ requested = 0
    /\ num_threads \in 1 .. SplitMaxChunks
    /\ total_size \in 0 .. SplitMaxSize
    /\ content = NoContent
    /\ real_size = 0
    /\ output_dir = "unbound"
    /\ success = FALSE
    /\ is_paused = FALSE
    /\ is_cancelled = FALSE
    /\ downloaded_bytes = << >>
    /\ ranges = << >>
    /\ fpc = [i \in Threads |-> "idle"]
    /\ hdr = [i \in Threads |-> << >>]
    /\ resp = [i \in Threads |-> "none"]
    /\ body = [i \in Threads |-> << >>]
    /\ cur = [i \in Threads |-> << >>]
    /\ parts = [i \in Threads |-> NoFile]
    /\ out = NoFile
    /\ cancelEarly = FALSE
    /\ mergeFault = FALSE
    /\ progress = 0
    /\ conn = NewConnector(UrlFileQuery)
    /\ peer = NoPeer
    /\ gui = NoWorker
    /\ cli = NoQueue

SplitCall ==
    /\ pc = "split"
    /\ ranges' = Splitter(total_size, num_threads)
    /\ pc' = "split_done"
    /\ UNCHANGED << result, output_dir, success, out, mergeFault, progress >>
    /\ UNCHANGED metaVars
    /\ UNCHANGED ctlVars
    /\ UNCHANGED fetchVars

SpecSplit == InitSplit /\ [][SplitCall]_vars

\* ==================================================================== claims
AllThreads == 0 .. (num_threads - 1)
NoParts == \A i \in Threads : ~parts[i].exists
RangeLen(i) == IF Range(i)[1] > Range(i)[2] THEN 0
               ELSE Range(i)[2] - Range(i)[1] + 1

\* C1: download() never lets an exception escape and always returns True or
\* False, on every path (resolver returns none, size absent, directory
\* creation fails, merge fails).
C1_AlwaysReturnsBoolean ==
    pc = "done" => result \in {"True", "False"}

\* C2: for total_size >= 0 and n >= 1, _splitter returns exactly n ranges in
\* ascending order, range i = [i*cs, min((i+1)*cs - 1, total_size - 1)] with
\* cs = ceil(total_size / n); the non-empty ranges are pairwise disjoint,
\* adjacent, and cover exactly [0, total_size), also when total_size < n.
C2_SplitterPartition ==
    pc = "split_done" =>
      LET ts == total_size
          n == num_threads
          cs == CHOOSE c \in 0 .. ts :
                  /\ c * n >= ts
                  /\ \A d \in 0 .. ts : d * n >= ts => c <= d
          st(i) == ranges[i + 1][1]
          en(i) == ranges[i + 1][2]
          NonEmpty == {i \in 0 .. (n - 1) : st(i) <= en(i)}
      IN  /\ Len(ranges) = n
          /\ \A i \in 0 .. (n - 1) :
               ranges[i + 1] = << i * cs, Min((i + 1) * cs - 1, ts - 1) >>
          /\ \A i, j \in 0 .. (n - 1) : i < j => st(i) <= st(j)
          /\ \A i, j \in NonEmpty : i < j => en(i) < st(j)
          /\ \A i \in NonEmpty :
               /\ 0 <= st(i) /\ en(i) <= ts - 1
               /\ IF i = 0 THEN st(i) = 0
                  ELSE (i - 1) \in NonEmpty /\ st(i) = en(i - 1) + 1
          /\ \A b \in 0 .. (ts - 1) :
               Cardinality({i \in NonEmpty : st(i) <= b /\ b <= en(i)}) = 1

\* A split with fewer bytes than a full last chunk and an empty last range.
C2_Witness ==
    /\ pc = "split_done"
    /\ total_size = 5
    /\ num_threads = 4
    /\ ranges = << <<0, 1>>, <<2, 3>>, <<4, 4>>, <<6, 4>> >>

\* The contents of parts 0 .. k-1, one after the other.
RECURSIVE PartsInOrder(_, _)
PartsInOrder(ps, k) ==
    IF k = 0 THEN << >> ELSE PartsInOrder(ps, k - 1) \o ps[k - 1].data

\* C3: when parts 0..N-1 all exist, a merge that returns True leaves an
\* output file equal to the concatenation of the parts in ascending index
\* order, and no part file 0..N-1 remains.
C3_MergeConcatenates ==
    [][ ( /\ pc = "merge"
          /\ pc' = "done"
          /\ result' = "True"
          /\ \A i \in AllThreads : parts[i].exists )
        => ( /\ out'.exists
             /\ out'.data = PartsInOrder(parts, num_threads)
             /\ \A i \in AllThreads : ~parts'[i].exists ) ]_vars

\* Two parts, both written by their fetchers, merged into the three bytes.
C3_Witness ==
    /\ pc = "done"
    /\ result = "True"
    /\ num_threads = 2
    /\ downloaded_bytes = << 2, 1 >>
    /\ out = File(<< 0, 1, 2 >>)
    /\ NoParts

\* C4: if cancel() is called before all fetchers of the session have
\* returned, then once they have returned no merge is attempted, the output
\* file is never created, every part file is deleted and download() returns
\* failure.
C4_CancelLeavesNothing ==
    (cancelEarly /\ AllReturned) =>
       /\ pc # "merge"
       /\ ~out.exists
       /\ pc = "done" => (result = "False" /\ NoParts)

\* A session cancelled while paused, after bytes had been written to a part.
C4_Witness ==
    /\ cancelEarly
    /\ is_paused
    /\ pc = "done"
    /\ result = "False"
    /\ SumSeq(downloaded_bytes) > 0
    /\ NoParts

\* C5: a session that does not end in success leaves, when download()
\* returns, no part file and no output file.
C5_FailureLeavesNothing ==
    (pc = "done" /\ result # "True") => (NoParts /\ ~out.exists)

\* C6: during Downloading every counter downloaded_bytes[i] is
\* non-decreasing, and successive get_progress() calls return v1 <= v2.
C6_ProgressMonotone ==
    [][ pc = "join" =>
          /\ \A k \in 1 .. Len(downloaded_bytes) :
               downloaded_bytes'[k] >= downloaded_bytes[k]
          /\ progress' >= progress ]_vars

\* get_progress() returned a positive value and the counters have moved on.
C6_Witness ==
    /\ pc = "join"
    /\ progress > 0
    /\ SumSeq(downloaded_bytes) > progress

\* C7: pause(), resume() and cancel() are idempotent (a second call in a row
\* leaves paused flag, cancelled flag and counters as the first call left
\* them) and each can be called in every state.
C7_ControlIdempotent ==
    /\ PauseOp(PauseOp(Ctl)) = PauseOp(Ctl)
    /\ ResumeOp(ResumeOp(Ctl)) = ResumeOp(Ctl)
    /\ CancelOp(CancelOp(Ctl)) = CancelOp(Ctl)
    /\ ENABLED Pause
    /\ ENABLED Resume
    /\ ENABLED Cancel

\* Both flags set while a fetcher sits in its pause loop with bytes counted.
C7_Witness ==
    /\ pc = "join"
    /\ is_paused
    /\ is_cancelled
    /\ SumSeq(downloaded_bytes) > 0
    /\ \E i \in Threads : fpc[i] = "pause"

\* The resolver's answer calls for the single unranged retrieval.
Downgrade ==
    /\ content.ok
    /\ \/ content.size = NoSize
       \/ content.size = 0
       \/ ~content.supports_resume
MakeDirsFailed ==
    pc = "done" /\ result = "False" /\ \A i \in Threads : ~Spawned(i)

\* C8: when supports_range is false, or the size is 0 or unknown, download()
\* spawns exactly one fetcher and its request carries no Range header.
C8_DowngradeUnranged ==
    (Downgrade /\ pc = "done" /\ ~MakeDirsFailed) =>
       /\ Cardinality({i \in Threads : Spawned(i)}) = 1
       /\ \A i \in Threads : hdr[i] = << >>

\* Fetcher i was served exactly the bytes of its range and wrote them all.
ExactReply(i) ==
    \/ resp[i] = "206"
    \/ resp[i] = "200" /\ Range(i) = << 0, total_size - 1 >>
ReceivedExactly(i) ==
    /\ fpc[i] = "done"
    /\ ExactReply(i)
    /\ downloaded_bytes[i + 1] = RangeLen(i)

\* C9: known size S, range support, n threads, every fetcher receives exactly
\* the bytes of its range, no cancel (and no I/O error in the merge):
\* download() returns True, get_progress() is S and the output has size S;
\* for S = 1,000,000 and n = 4 the ranges are the four quarters.
C9_EndToEnd ==
    /\ Splitter(1000000, 4) = << <<0, 249999>>, <<250000, 499999>>,
                                 <<500000, 749999>>, <<750000, 999999>> >>
    /\ ( /\ pc = "done"
         /\ content.ok
         /\ total_size > 0
         /\ content.supports_resume
         /\ \E i \in Threads : Spawned(i)
         /\ \A i \in AllThreads : ReceivedExactly(i)
         /\ ~is_cancelled
         /\ ~mergeFault )
       => ( /\ result = "True"
            /\ num_threads = requested
            /\ SumSeq(downloaded_bytes) = total_size
            /\ out.exists
            /\ Len(out.data) = total_size
            /\ out.data = Bytes(0, total_size - 1) )

\* Two fetchers, each served its own range, three bytes merged.
C9_Witness ==
    /\ pc = "done"
    /\ result = "True"
    /\ requested = 2
    /\ total_size = 3
    /\ content.supports_resume
    /\ \A i \in AllThreads : resp[i] = "206" /\ ReceivedExactly(i)
    /\ ~is_cancelled
    /\ out = File(<< 0, 1, 2 >>)

\* C10: with total_size known (> 0) the counters never add up to more than
\* total_size, whatever body the server sends with status 200 or 206.
C10_SumWithinTotal ==
    total_size > 0 => SumSeq(downloaded_bytes) <= total_size


\* C11: a session that was not cancelled reports success only if every part
\* 0..N-1 was present when the merge consumed it.
C11_SuccessNeedsAllParts ==
    [][ (pc = "merge" /\ pc' = "done" /\ result' = "True")
        => \A i \in AllThreads : parts[i].exists ]_vars

\* C14: when connect() returns none, download() returns False, spawns no
\* fetcher and creates no part or output file.
C14_ResolverFailureIsFailed ==
    (pc = "done" /\ ~content.ok) =>
       /\ result = "False"
       /\ \A i \in Threads : ~Spawned(i)
       /\ NoParts
       /\ ~out.exists

\* C15: the output file is created and written only by the coordinating
\* thread in the merge, and whenever it is written (or exists) every fetcher
\* thread of the session has terminated.
C15_OutputWrittenAfterFetchers ==
    [][ /\ out' # out =>
             /\ pc = "merge"
             /\ pc' = "done"
             /\ \A i \in Threads : fpc[i] \in {"idle", "done"}
             /\ \A i \in Threads : fpc'[i] = fpc[i]
        /\ out.exists => \A i \in Threads : fpc[i] \in {"idle", "done"} ]_vars

\* A merged output of a session whose two fetchers both wrote their parts.
C15_Witness ==
    /\ pc = "done"
    /\ out.exists
    /\ Len(out.data) = 3
    /\ num_threads = 2
    /\ \A i \in AllThreads : fpc[i] = "done" /\ downloaded_bytes[i + 1] > 0

RECURSIVE BytesInParts(_, _)
BytesInParts(ps, k) ==
    IF k = 0 THEN 0 ELSE BytesInParts(ps, k - 1) + Len(ps[k - 1].data)

\* C17: no counter update is lost: for each chunk i the bytes written to
\* part i exceed downloaded_bytes[i] by 0, or by the length of the one
\* increment fetcher i has written and not yet counted; once all fetchers
\* have returned, the sum get_progress() returns is the number of bytes
\* written to all parts.
C17_NoLostUpdate ==
    pc \in {"join", "joined", "merge"} =>
       /\ \A i \in AllThreads :
            Len(parts[i].data) - downloaded_bytes[i + 1] =
               IF fpc[i] = "incr" THEN Len(cur[i]) ELSE 0
       /\ AllReturned =>
            SumSeq(downloaded_bytes) = BytesInParts(parts, num_threads)

\* A fetcher between its write and its counter update, beside a counted one,
\* after a get_progress() call.
C17_Witness ==
    /\ pc = "join"
    /\ num_threads = 2
    /\ progress > 0
    /\ fpc[0] = "incr"
    /\ Len(cur[0]) = 2
    /\ downloaded_bytes[1] = 0
    /\ downloaded_bytes[2] > 0

\* C18: a fetcher that observes is_cancelled, at its per-increment check or
\* in its pause loop, writes no further byte to its part and adds nothing
\* to its counter.
C18_CancelStopsAtOnce ==
    [][ \A i \in Threads :
          ( /\ pc = "join"
            /\ is_cancelled
            /\ \/ fpc[i] = "iter"
               \/ fpc[i] = "pause" /\ is_paused )
          => ( /\ parts'[i] = parts[i]
               /\ downloaded_bytes'[i + 1] = downloaded_bytes[i + 1] ) ]_vars

\* C19: after pause() during Downloading, while is_paused stays set and
\* cancel() is not called, a suspended fetcher writes nothing, no fetcher
\* returns and the session does not proceed to the merge.
C19_PausedSessionStandsStill ==
    [][ (is_paused /\ ~is_cancelled /\ ~is_cancelled') =>
          /\ pc' = "join"
          /\ \A i \in Threads :
               /\ fpc'[i] = "done" => fpc[i] = "done"
               /\ fpc[i] = "pause" =>
                    /\ fpc'[i] = "pause"
                    /\ parts'[i] = parts[i] ]_vars


\* C12: connect() never raises: a probe that raises (timeout, transport
\* error or anything else) or is answered with a status outside 200..299
\* makes it return None, and a fallback GET that raises leaves the call
\* returning its metadata.
C12_ConnectNeverRaises ==
    (pc = "connector" /\ conn.calls > 0) =>
       /\ RetKind(conn.ret) \in {"none", "dict"}
       /\ ProbeKind(conn.probe) = "raise" => RetKind(conn.ret) = "none"
       /\ (ProbeKind(conn.probe) = "reply" /\ ProbeStatus(conn.probe) \notin 200 .. 299)
             => RetKind(conn.ret) = "none"
       /\ GetKind(conn.get) = "raise" =>
             /\ RetKind(conn.ret) = "dict"
             /\ RetSize(conn.ret) = NoSize

\* The second call on a Connector: its probe passed and its fallback GET
\* raised.
C12_Witness ==
    /\ pc = "connector"
    /\ conn.calls = 2
    /\ ProbeKind(conn.probe) = "reply"
    /\ GetKind(conn.get) = "raise"
    /\ RetKind(conn.ret) = "dict"

\* C13: the first successful connect() of a Connector names the file
\* plain.txt for the quoted plain header, caf<e acute>.txt (code point 233)
\* for the extended header, file.zip for no header and the URL with path
\* /path/file.zip and a query, and the default name for no header and a URL
\* whose path ends in / or is empty.
C13_FilenameExamples ==
    (pc = "connector" /\ conn.calls = 1 /\ RetKind(conn.ret) = "dict") =>
       /\ ProbeDisposition(conn.probe) = HdrPlainQuoted =>
             RetFilename(conn.ret) =
                Str(<< "p", "l", "a", "i", "n", ".", "t", "x", "t" >>)
       /\ ProbeDisposition(conn.probe) = HdrExtended =>
             RetFilename(conn.ret) =
                Str(<< "c", "a", "f" >>) \o << 233 >>
                   \o Str(<< ".", "t", "x", "t" >>)
       /\ (ProbeDisposition(conn.probe) = None /\ conn.url = UrlFileQuery) =>
             RetFilename(conn.ret) =
                Str(<< "f", "i", "l", "e", ".", "z", "i", "p" >>)
       /\ (ProbeDisposition(conn.probe) = None
           /\ conn.url \in {UrlDirectory, UrlNoPath}) =>
             RetFilename(conn.ret) =
                Str(<< "d", "o", "w", "n", "l", "o", "a", "d", "_",
                       "f", "i", "l", "e" >>)

\* The extended header answered to the first call, its value decoded.
C13_Witness ==
    /\ pc = "connector"
    /\ conn.calls = 1
    /\ RetKind(conn.ret) = "dict"
    /\ ProbeDisposition(conn.probe) = HdrExtended
    /\ Len(RetFilename(conn.ret)) = 8
    /\ RetFilename(conn.ret)[4] = 233


C21_CancelIsTerminal ==
    [][ /\ is_cancelled => is_cancelled'
        /\ cancelEarly' => /\ is_cancelled'
                           /\ pc' # "merge"
                           /\ ~(pc' = "done" /\ result' = "True") ]_vars

\* cancel() came while fetchers were pending, resume() was called after it;
\* the session ended with the flag still set.
C21_Witness ==
    /\ cancelEarly
    /\ is_cancelled
    /\ ~is_paused
    /\ pc = "done"
    /\ result = "False"
    /\ num_threads = 2
    /\ SumSeq(downloaded_bytes) > 0


\* C22: download() runs with one fetcher when the resolved size is absent,
\* when it is 0 or when the server has no range support, and with the
\* requested number otherwise; in the downgrade cases the session goes on
\* with its single fetcher instead of failing.
C22_EffectiveThreadCount ==
    (content.ok /\ pc = "done" /\ ~MakeDirsFailed) =>
       /\ result # "raised"
       /\ num_threads = (IF Downgrade THEN 1 ELSE requested)
       /\ Cardinality({i \in Threads : Spawned(i)}) = num_threads


\* The ranges of the partition that hold no byte (start > end).
EmptyRanges == {i \in Threads : i < Len(ranges) /\ Range(i)[1] > Range(i)[2]}

\* C23: when the partition of a session with more fetchers than bytes holds
\* an empty range (start > end), no request is issued for it: its fetcher
\* sends no header and gets no reply, its counter stays 0 and its part
\* holds no byte.
C23_EmptyRangeNoRequest ==
    \A i \in EmptyRanges :
       (total_size > 0 /\ Spawned(i)) =>
          /\ hdr[i] = << >>
          /\ resp[i] = "none"
          /\ downloaded_bytes[i + 1] = 0
          /\ parts[PartPath(i)].exists => parts[PartPath(i)].data = << >>


\* Fetcher i can take a step of its own: it is started, has not returned
\* and is not held in its pause loop.
CanStep(i) ==
    /\ pc = "join"
    /\ fpc[i] \notin {"idle", "done"}
    /\ ~(fpc[i] = "pause" /\ PauseLoop(is_paused, is_cancelled))

\* C24: a failed chunk (bad status, timeout, transport error) stays in its
\* fetcher: the step raises nothing into the coordinator, leaves the paused
\* and the cancelled flag as they were, and leaves every sibling with its
\* position, its pending body, its part and its counter, able to go on.
C24_ChunkFailureContained ==
    [][ \A i \in Threads :
          (resp[i] # "failed" /\ resp'[i] = "failed") =>
             /\ pc' = pc
             /\ result' = result
             /\ is_paused' = is_paused
             /\ is_cancelled' = is_cancelled
             /\ \A j \in AllThreads \ {i} :
                   /\ fpc'[j] = fpc[j]
                   /\ body'[j] = body[j]
                   /\ parts'[PartPath(j)] = parts[PartPath(j)]
                   /\ downloaded_bytes'[j + 1] = downloaded_bytes[j + 1]
                   /\ CanStep(j) => ENABLED Fetcher(j) ]_vars

\* One fetcher failed, its sibling received the whole of its own range.
C24_Witness ==
    /\ pc = "join"
    /\ num_threads = 2
    /\ ~is_paused
    /\ ~is_cancelled
    /\ \E i, j \in AllThreads :
          /\ resp[i] = "failed"
          /\ ReceivedExactly(j)
          /\ RangeLen(j) > 0
          /\ parts[PartPath(j)].data = Bytes(Range(j)[1], Range(j)[2])


\* download() ended without starting a fetcher: the only such paths are the
\* ones where an exception was raised inside its try block (connect()
\* returned nothing, the size was absent, the directory was not created).
RaisedInside == pc = "done" /\ \A i \in Threads : ~Spawned(i)

\* C25: whenever an exception is raised inside download(), before or after
\* output_dir is bound, the handler removes the parts of the session and
\* download() returns False.
C25_HandlerCleansAndFails ==
    RaisedInside => (result = "False" /\ NoParts)


\* C26: when the merge succeeds, download() returns True and the output
\* file is kept, also when the size of the output differs from the known
\* total_size.
C26_MismatchIsWarning ==
    [][ (pc = "merge" /\ pc' = "done" /\ ~mergeFault') =>
           /\ result' = "True"
           /\ out'.exists
           /\ out' = Merger(parts, num_threads, num_threads).out ]_vars

\* A session of known size that ended True with an output of another size.
C26_Witness ==
    /\ pc = "done"
    /\ result = "True"
    /\ ~mergeFault
    /\ total_size > 0
    /\ out.exists
    /\ Len(out.data) # total_size


\* connect() has returned its dict to download(): the HEAD probe of
\* connection_manager.py line 101 was sent and answered with status 200.
ProbeAnswered == content.ok

\* C27: when the output directory cannot be created, download() returns
\* False and nothing has touched the network before: no probe was sent, no
\* fetcher was started and no chunk request was sent.
C27_MakeDirsBeforeNetwork ==
    MakeDirsFailed =>
       /\ ~ProbeAnswered
       /\ \A i \in Threads :
             ~Spawned(i) /\ hdr[i] = << >> /\ resp[i] = "none"


\* C28: the supports_resume value a connect() call returns reflects the
\* probe of that call alone: it is true exactly when the Accept-Ranges
\* header of the probe is "bytes" in any case, whatever an earlier call on
\* the same Connector returned.
C28_RangeSupportPerCall ==
    (pc = "connector" /\ conn.calls > 0 /\ RetKind(conn.ret) = "dict") =>
       (RetSupportsResume(conn.ret)
           <=> Lower(ProbeRanges(conn.probe)) = RangeUnitBytes)


\* C29: the name of the first successful connect(): a header with both an
\* extended value (b.txt) and a plain value (a.txt), in either order, gives
\* exactly the decoded extended value; a plain value, quoted or not, comes
\* without quotes and without the parameters that follow it; the last
\* segment of the URL path is used only when the header gives no name.
C29_FilenamePriority ==
    (pc = "connector" /\ conn.calls = 1 /\ RetKind(conn.ret) = "dict") =>
       /\ ProbeDisposition(conn.probe)
             \in {HdrExtendedThenPlain, HdrPlainThenExtended} =>
             RetFilename(conn.ret) = Str(<< "b", ".", "t", "x", "t" >>)
       /\ ProbeDisposition(conn.probe) = HdrPlainBareParams =>
             RetFilename(conn.ret) = Str(<< "a", ".", "t", "x", "t" >>)
       /\ ProbeDisposition(conn.probe) = HdrPlainBare =>
             RetFilename(conn.ret) =
                Str(<< "n", "o", "t", "e", "s", ".", "m", "d" >>)
       /\ ProbeDisposition(conn.probe) \in {None, HdrInline} <=>
             RetFilename(conn.ret) = UrlParser(conn.url)


\* The part paths a session has opened for writing.
OpenedByFirst == {PartPath(i) : i \in {k \in Threads : resp[k] \in {"200", "206"}}}
OpenedBySecond ==
    {PartPath(i) : i \in {k \in Threads : PeerFpc(peer)[k] \in {"open", "done"}}}

\* C30: two sessions with different output files in one output directory
\* run at the same time: no part path is opened for writing by both, and
\* the merged output of each session holds bytes of its own resource only.
C30_SessionsKeepApart ==
    /\ OpenedByFirst \cap OpenedBySecond = {}
    /\ (pc = "done" /\ out.exists) =>
          \A k \in 1 .. Len(out.data) : out.data[k] >= 0
    /\ (PeerPc(peer) = "done") =>
          \A k \in 1 .. Len(PeerOut(peer).data) : PeerOut(peer).data[k] < 0


\* C31: the merged output of a session holds only bytes its own fetchers
\* wrote: a part left in the directory by an earlier session is not taken
\* into the output of a session whose fetcher for that part failed before
\* creating it.
C31_NoStalePartMerged ==
    (pc = "done" /\ result = "True" /\ out.exists) =>
       \A k \in 1 .. Len(out.data) : out.data[k] >= 0


GuiNoParts == \A i \in Threads : ~gui.parts[i].exists

\* C32: every run() of the GUI worker emits finished exactly once, under
\* every interleaving of pause(), resume() and stop() with the chunk
\* threads, and a run that did not merge leaves no part file.
C32_FinishedOnce ==
    gui.rpc = "done" =>
       /\ gui.emitted = 1
       /\ gui.message # "Completed" => GuiNoParts

\* C33: after stop() during a download, once run() has reported Cancelled
\* no part file of the session exists, and no chunk thread that outlived
\* the join creates or writes one afterwards.
C33_CancelledLeavesNoPart ==
    (gui.rpc = "done" /\ gui.message = "Cancelled") => GuiNoParts


\* C34: process_queue marks a pending item completed only if its download
\* succeeded (download() returned True) and failed otherwise; an item that
\* was not pending keeps its status and is not downloaded.
C34_CompletedMeansDownloaded ==
    \A k \in 1 .. Len(CliQueue(cli)) :
       /\ CliBefore(cli)[k] # "pending" =>
             /\ CliQueue(cli)[k] = CliBefore(cli)[k]
             /\ CliResults(cli)[k] = "none"
       /\ (CliBefore(cli)[k] = "pending" /\ k < CliPos(cli)) =>
             /\ CliQueue(cli)[k] \in {"completed", "failed"}
             /\ CliQueue(cli)[k] = "completed" <=> CliResults(cli)[k] = "True"

====
